---- MODULE Spec2Model ----
(***************************************************************************)
(* Model of the SSE delimited-text scanner of                              *)
(* be/src/exec/delimited-text-parser.inline.h: ProcessEscapeMask,          *)
(* DelimitedTextParser::AddColumn and DelimitedTextParser::ParseSse.       *)
(*                                                                         *)
(* Bytes are numbers 0..255, positions are 0-based offsets into the input  *)
(* buffer (a pointer p is the offset p), and a 16-bit mask is the set of   *)
(* its set bit positions, a subset of 0..15.  Offsets stay far below 2^31,  *)
(* so the narrowing of a pointer difference to AddColumn's int parameter   *)
(* is the identity on every value of the model.                            *)
(***************************************************************************)
EXTENDS Integers, Sequences, FiniteSets, TLC

\* ------------------------------------------------------------------ bounds

\* Longest sequence of freely chosen bytes in an input buffer.
MaxSpecial == 2
\* Every input buffer is padded with ordinary bytes to this length.
TotalLen == 32
\* Calls of ParseSse made on one buffer.
MaxCalls == 2
\* A tuple bound no buffer of the model can reach.
Unreachable == 100
\* The escape runs of the buffers that exercise ProcessEscapeMask start and end
\* within this many positions of either end of the window.
MaskEdge == 3

\* ------------------------------------------------------- program constants

CHARS_PER_128_BIT_REGISTER == 16

\* ------------------------------------------------------------------- bytes

\* The delimiter configurations of a parser instance:
\* ',' field, ':' collection item, '\n' tuple, '\\' escape.
DelimConfigs ==
  { [field |-> 44, item |-> 58, tuple |-> 10, escape |-> 92] }

\* Bytes of the input buffers: NUL, '\n', ',', '\\' and 'a'.
Alphabet == {0, 10, 44, 92, 97}

\* An ordinary byte, used to pad the buffers.
Filler == CHOOSE b \in Alphabet : \A c \in DelimConfigs :
            b \notin {0, c.field, c.item, c.tuple, c.escape}

Positions == 0 .. (CHARS_PER_128_BIT_REGISTER - 1)

Repeat(b, n) == [i \in 1 .. n |-> b]

RECURSIVE SeqsUpTo(_)
SeqsUpTo(n) ==
  IF n = 0 THEN { <<>> }
  ELSE LET shorter == SeqsUpTo(n - 1)
       IN shorter \cup { Append(s, b) : s \in { t \in shorter : Len(t) = n - 1 },
                                        b \in Alphabet }

\* A run of one byte that puts the free bytes at or across a window boundary.
Prefixes ==
  { <<97, 0>>, <<97, 14>>, <<97, 15>>, <<92, 1>>, <<92, 15>>, <<92, 16>> }

PadTo(s, n) == IF Len(s) >= n THEN s ELSE s \o Repeat(Filler, n - Len(s))

\* What a buffer starts with: nothing, or an empty one-column tuple.
Leads == { << >>, << 10 >> }

\* What follows the free bytes: nothing, or a field delimiter.
Tails == { << >>, << 44 >> }

Buffers ==
  { PadTo(l \o Repeat(p[1], p[2]) \o s \o e, TotalLen) :
      l \in Leads, p \in Prefixes, s \in SeqsUpTo(MaxSpecial), e \in Tails }

\* The buffers of the specification that is checked for termination.
FewBuffers ==
  { PadTo(l \o Repeat(p[1], p[2]) \o s, TotalLen) :
      l \in Leads, p \in { <<97, 15>> }, s \in SeqsUpTo(MaxSpecial) }

\* Window positions near either end of the window.
EdgePositions ==
  { i \in Positions : i < MaskEdge \/ i >= CHARS_PER_128_BIT_REGISTER - MaskEdge }

\* Buffers whose first window holds escape characters on up to two runs of
\* positions and field delimiters everywhere else.
MaskBuffers ==
  { PadTo([ i \in 1 .. CHARS_PER_128_BIT_REGISTER |->
             IF i - 1 \in (a .. b) \cup (c .. d) THEN 92 ELSE 44 ], TotalLen) :
      a \in EdgePositions, b \in EdgePositions,
      c \in EdgePositions, d \in EdgePositions }

\* What a load finds beyond the end of the buffer: the model tries memory full of
\* ordinary bytes, of field delimiters and of tuple delimiters.
Garbage == { 97, 44, 10 }

\* ------------------------------------------------------- SSE4.2 primitives

\* F(v), with v evaluated once: the value of a local variable of the code.
With(v, F(_)) == CHOOSE out \in { F(x) : x \in { v } } : TRUE

Min(S) == With(S, LAMBDA T : CHOOSE x \in T : \A y \in T : x <= y)

\* Length of a 16-byte register read as an implicit-length (NUL-terminated) string.
ImplicitLen(reg) ==
  With({ i \in Positions : reg[i] = 0 },
       LAMBDA zeros : IF zeros = {} THEN CHARS_PER_128_BIT_REGISTER ELSE Min(zeros))

\* _mm_cmpistrm(needle, haystack, STRCHR_MODE) followed by _mm_extract_epi16(.., 0):
\* bit j is set iff haystack byte j lies before the haystack's first NUL and equals
\* a needle byte that lies before the needle's first NUL.
Cmpistrm(needle, haystack) ==
  With(ImplicitLen(needle), LAMBDA needle_len :
  With(ImplicitLen(haystack), LAMBDA haystack_len :
  With({ needle[i] : i \in { k \in Positions : k < needle_len } }, LAMBDA chars :
    { j \in Positions : j < haystack_len /\ haystack[j] \in chars })))

\* A search register: the given characters, then zeros.
SearchRegister(chars) ==
  [i \in Positions |-> IF i < Len(chars) THEN chars[i + 1] ELSE 0]

\* SSEUtil::SSE_BITMASK[i]
SSE_BITMASK(i) == { i }

\* low_mask_[i]: the bits at or above i.  high_mask_[i]: the bits at or below i.
low_mask_(i) == { j \in Positions : j >= i }
high_mask_(i) == { j \in Positions : j <= i }

\* uint16_t(mask << 1)
ShiftLeft1(mask) == { i + 1 : i \in { j \in mask : j + 1 \in Positions } }

\* ------------------------------------------------------------------- state

VARIABLES
  \* configuration of the parser instance, fixed after construction
  buffer,                     \* the caller's input buffer (a sequence of bytes)
  process_escapes,            \* template parameter of ParseSse and AddColumn
  field_delim_, collection_item_delim_, tuple_delim_, escape_char_,
  num_partition_keys,         \* scan_node_->num_partition_keys()
  skip_columns,               \* columns for which ReturnCurrentColumn() is false
  field_capacity,             \* field_locations->size()
  \* parser members
  column_idx_, current_column_has_escape_, last_char_is_escape_,
  \* the caller's in/out arguments
  max_tuples, remaining_len, byte_buffer_ptr, row_end_locations, field_locations,
  num_tuples, num_fields, next_column_start,
  \* position of the call: "idle" (no call running) or "loop" (at the while test)
  pc,
  \* history
  calls,                      \* calls of ParseSse started so far
  entry,                      \* the cursor and parser members at the start of the call
  early_exit,                 \* the last return was the return of line 149
  tuple_ends,                 \* every tuple end recorded, over all calls
  column_ends,                \* every AddColumn: its delimiter, column, and effect
  all_bounds_positive,        \* every call so far was given max_tuples >= 1
  dcheck_failed,              \* DCHECK_LT(*num_fields, field_locations->size()) failed
  out_of_bounds               \* a window was loaded from beyond the end of the buffer

config == << buffer, process_escapes, field_delim_, collection_item_delim_,
             tuple_delim_, escape_char_, num_partition_keys, skip_columns,
             field_capacity >>

vars == << buffer, process_escapes, field_delim_, collection_item_delim_,
           tuple_delim_, escape_char_, num_partition_keys, skip_columns,
           field_capacity, column_idx_, current_column_has_escape_,
           last_char_is_escape_, max_tuples, remaining_len, byte_buffer_ptr,
           row_end_locations, field_locations, num_tuples, num_fields,
           next_column_start, pc, calls, entry, early_exit, tuple_ends,
           column_ends, all_bounds_positive, dcheck_failed, out_of_bounds >>

\* The state ParseSse works on, as one record.
State ==
  [ column_idx_ |-> column_idx_,
    current_column_has_escape_ |-> current_column_has_escape_,
    last_char_is_escape_ |-> last_char_is_escape_,
    remaining_len |-> remaining_len,
    byte_buffer_ptr |-> byte_buffer_ptr,
    row_end_locations |-> row_end_locations,
    field_locations |-> field_locations,
    num_tuples |-> num_tuples,
    num_fields |-> num_fields,
    next_column_start |-> next_column_start,
    tuple_ends |-> tuple_ends,
    column_ends |-> column_ends,
    dcheck_failed |-> dcheck_failed ]

\* ------------------------------------------------------- ProcessEscapeMask

\* The loop of lines 15-20 without escape_next: every escape character is active.
EscapeLoopNoParity(escape_mask, first_char_is_escape) == escape_mask

\* escape_mask after the loop of lines 15-20.  escape_next[i] is the value of
\* escape_next when iteration i starts: iteration i clears bit i if escape_next
\* is set, and then sets escape_next to what is left of bit i.
EscapeLoop(escape_mask, first_char_is_escape) ==
  LET escape_next[i \in 0 .. CHARS_PER_128_BIT_REGISTER] ==
        IF i = 0 THEN first_char_is_escape
        ELSE (escape_mask \cap SSE_BITMASK(i - 1)) # {} /\ ~escape_next[i - 1]
  IN { i \in escape_mask : ~escape_next[i] }

ProcessEscapeMask(escape_mask, last_char_is_escape, delim_mask) ==
  With(last_char_is_escape, LAMBDA first_char_is_escape :
  With(EscapeLoop(escape_mask, first_char_is_escape), LAMBDA active :
    [ last_char_is_escape |->
        (active \cap SSE_BITMASK(CHARS_PER_128_BIT_REGISTER - 1)) # {},
      delim_mask |->
        delim_mask \ (ShiftLeft1(active) \cup (IF first_char_is_escape THEN {0} ELSE {})) ]))

\* --------------------------------------------------------------- AddColumn

ReturnCurrentColumn(column_idx) == column_idx \notin skip_columns

\* The length of lines 41-45.
FieldLen(has_escape, len) == IF process_escapes /\ has_escape THEN 0 - len ELSE len

\* The advance of line 49 one byte too far.
AdvanceColumnStartTooFar(start, len) == start + len + 2

\* *next_column_start += len + 1
AdvanceColumnStart(start, len) == start + len + 1

\* Line 48 without the assignment: the flag of the column that ended is kept.
ColumnEscapeKept(flag) == flag

\* if (process_escapes) current_column_has_escape_ = false;
ClearColumnEscape(flag) == IF process_escapes THEN FALSE ELSE flag

\* AddColumn on the state s; delim_ptr, the delimiter's position, is only logged.
AddColumn(s, len, delim_ptr) ==
  With(IF ReturnCurrentColumn(s.column_idx_)
       THEN [ s EXCEPT
              !.dcheck_failed = @ \/ ~(s.num_fields < field_capacity),
              !.field_locations =
                 Append(@, [ start |-> s.next_column_start,
                             len |-> FieldLen(s.current_column_has_escape_, len) ]),
              !.num_fields = @ + 1 ]
       ELSE s,
       LAMBDA written :
    [ written EXCEPT
      !.current_column_has_escape_ = ClearColumnEscape(@),
      !.next_column_start = AdvanceColumnStart(@, len),
      !.column_idx_ = @ + 1,
      !.column_ends = Append(@, [ delim |-> delim_ptr, column |-> s.column_idx_,
                                  recorded |-> ReturnCurrentColumn(s.column_idx_) ]) ])

\* ---------------------------------------------------------------- ParseSse

xmm_delim_search_ ==
  SearchRegister(<< field_delim_, collection_item_delim_, tuple_delim_ >>)

xmm_escape_search_ == SearchRegister(<< escape_char_ >>)

\* The while test of line 94 with a strict comparison.
LoopConditionStrict(remaining) == remaining > CHARS_PER_128_BIT_REGISTER

\* while (*remaining_len >= SSEUtil::CHARS_PER_128_BIT_REGISTER)
LoopCondition(remaining) == remaining >= CHARS_PER_128_BIT_REGISTER

\* The test of line 145 with the bound missed by one.
ReachedMaxTuplesLate(tuples, bound) == tuples = bound + 1

\* *num_tuples == max_tuples
ReachedMaxTuples(tuples, bound) == tuples = bound

\* The reset of line 142 one column too far.
TupleColumnResetOneMore == num_partition_keys + 1

\* column_idx_ = scan_node_->num_partition_keys()
TupleColumnReset == num_partition_keys

\* _mm_loadu_si128 at ptr.  Bytes beyond the end of the buffer are whatever the
\* memory behind it holds: 'beyond' gives them.
Load(ptr, beyond) ==
  [ i \in Positions |->
      IF ptr + i < Len(buffer) THEN buffer[ptr + i + 1] ELSE beyond[i] ]

\* Lines 129-139: the column that ends at bit n of the window.
EndColumn(s, n, escape_mask, last_col_idx) ==
  With((escape_mask \cap low_mask_(last_col_idx) \cap high_mask_(n)) # {},
       LAMBDA escaped :
  With(IF process_escapes
       THEN [ s EXCEPT !.current_column_has_escape_ = @ \/ escaped ]
       ELSE s,
       LAMBDA flagged :
  With(s.byte_buffer_ptr + n, LAMBDA delim_ptr :
    AddColumn(flagged, delim_ptr - flagged.next_column_start, delim_ptr))))

\* Lines 142-144: the tuple that ends at bit n of the window.
EndTuple(s, n) ==
  [ s EXCEPT
    !.column_idx_ = TupleColumnReset,
    !.row_end_locations = Append(@, s.byte_buffer_ptr + n),
    !.tuple_ends = Append(@, s.byte_buffer_ptr + n),
    !.num_tuples = @ + 1 ]

\* Line 147 without the assignment: the carry of the interrupted window is kept.
ExitCarryKept(carry) == carry

\* if (process_escapes) last_char_is_escape_ = false;
ExitCarry(carry) == IF process_escapes THEN FALSE ELSE carry

\* The return of lines 145-150.
EarlyExit(s, n) ==
  [ s EXCEPT
    !.byte_buffer_ptr = @ + (n + 1),
    !.last_char_is_escape_ = ExitCarry(@),
    !.remaining_len = @ + (n + 1) ]

\* Lines 123-151: the set bit n of delim_mask.
Delimiter(s, n, escape_mask, last_col_idx, window, bound) ==
  With(EndColumn(s, n, escape_mask, last_col_idx), LAMBDA column :
    IF window[n] = tuple_delim_
    THEN With(EndTuple(column, n), LAMBDA tuple :
           IF ReachedMaxTuples(tuple.num_tuples, bound)
           THEN [ state |-> EarlyExit(tuple, n), returned |-> TRUE ]
           ELSE [ state |-> tuple, returned |-> FALSE ])
    ELSE [ state |-> column, returned |-> FALSE ])

\* The loop of lines 121-152 over the set bits of delim_mask.
RECURSIVE DelimLoop(_, _, _, _, _, _)
DelimLoop(s, delim_mask, escape_mask, last_col_idx, window, bound) ==
  IF delim_mask = {}
  THEN [ state |-> s, last_col_idx |-> last_col_idx, returned |-> FALSE ]
  ELSE
    With(Min(delim_mask), LAMBDA n :
    With([ after |-> Delimiter(s, n, escape_mask, last_col_idx, window, bound),
           rest |-> delim_mask \ SSE_BITMASK(n),
           idx |-> IF process_escapes THEN n ELSE last_col_idx ],
         LAMBDA step :
      IF step.after.returned
      THEN [ state |-> step.after.state, last_col_idx |-> step.idx, returned |-> TRUE ]
      ELSE DelimLoop(step.after.state, step.rest, escape_mask, step.idx, window, bound)))

\* Lines 154-161: the end of an iteration that did not return.
EndWindow(s, escape_mask, last_col_idx) ==
  With((escape_mask \cap low_mask_(last_col_idx)
          \cap high_mask_(CHARS_PER_128_BIT_REGISTER - 1)) # {},
       LAMBDA unprocessed_escape :
    [ s EXCEPT
      !.current_column_has_escape_ =
         IF process_escapes THEN @ \/ unprocessed_escape ELSE @,
      !.remaining_len = @ - CHARS_PER_128_BIT_REGISTER,
      !.byte_buffer_ptr = @ + CHARS_PER_128_BIT_REGISTER ])

\* Lines 110-116 with the condition dropped: delim_mask is corrected on every path.
AlwaysCorrectedMask(found, corrected) == corrected

\* delim_mask after lines 110-116: ProcessEscapeMask has corrected it only if
\* process_escapes.
UsedDelimMask(found, corrected) == IF process_escapes THEN corrected ELSE found

\* Lines 104-106: delim_mask for the loaded window.
DelimiterMask(window) == Cmpistrm(xmm_delim_search_, window)

\* One iteration of the while loop of lines 94-162 on the loaded window.
ProcessWindow(s, window, bound) ==
  With(DelimiterMask(window), LAMBDA found :
  With(IF process_escapes THEN Cmpistrm(xmm_escape_search_, window) ELSE {},
       LAMBDA escape_mask :
  With(ProcessEscapeMask(escape_mask, s.last_char_is_escape_, found), LAMBDA fixed :
  With(IF process_escapes
       THEN [ s EXCEPT !.last_char_is_escape_ = fixed.last_char_is_escape ]
       ELSE s,
       LAMBDA carried :
  With(DelimLoop(carried, UsedDelimMask(found, fixed.delim_mask),
                 escape_mask, 0, window, bound),
       LAMBDA r :
    IF r.returned
    THEN [ state |-> r.state, returned |-> TRUE ]
    ELSE [ state |-> EndWindow(r.state, escape_mask, r.last_col_idx),
           returned |-> FALSE ])))))

\* A whole call of ParseSse on a state whose windows all lie inside the buffer.
RECURSIVE ParseSse(_, _)
ParseSse(s, bound) ==
  IF LoopCondition(s.remaining_len)
  THEN With(Load(s.byte_buffer_ptr, [i \in Positions |-> 0]), LAMBDA window :
       With(ProcessWindow(s, window, bound), LAMBDA r :
         IF r.returned THEN r.state ELSE ParseSse(r.state, bound)))
  ELSE s

\* ------------------------------------------------------------- the machine

\* Partition-key counts and projections of the scan node: one partition key and
\* every column of the file materialized, or no partition key and the first column
\* of the file not materialized.
Projections ==
  { [keys |-> 1, skip |-> {}], [keys |-> 0, skip |-> {0}] }

\* The tuple bounds a caller passes.
MaxTuplesChoices == { 0, 1, 2 }

IsDelimiter(b) == b \in { field_delim_, collection_item_delim_, tuple_delim_ }

\* The number of delimiter bytes of the buffer: the caller's worst-case field count.
DelimiterCount(buf, delims) == Cardinality({ i \in 1 .. Len(buf) : buf[i] \in delims })

\* The state after construction of a parser for one of the given buffers.
InitOn(buffers) ==
  /\ buffer \in buffers
  /\ process_escapes \in BOOLEAN
  /\ \E c \in DelimConfigs :
       /\ field_delim_ = c.field
       /\ collection_item_delim_ = c.item
       /\ tuple_delim_ = c.tuple
       /\ escape_char_ = IF process_escapes THEN c.escape ELSE 0
       /\ field_capacity = DelimiterCount(buffer, { c.field, c.item, c.tuple })
  /\ \E p \in Projections :
       /\ num_partition_keys = p.keys
       /\ skip_columns = p.skip
       /\ column_idx_ = p.keys
  /\ current_column_has_escape_ = FALSE
  /\ last_char_is_escape_ = FALSE
  /\ max_tuples = 0
  /\ remaining_len = Len(buffer)
  /\ byte_buffer_ptr = 0
  /\ row_end_locations = << >>
  /\ field_locations = << >>
  /\ num_tuples = 0
  /\ num_fields = 0
  /\ next_column_start = 0
  /\ pc = "idle"
  /\ calls = 0
  /\ entry = [ byte_buffer_ptr |-> 0, remaining_len |-> Len(buffer),
               column_idx_ |-> column_idx_,
               current_column_has_escape_ |-> FALSE,
               last_char_is_escape_ |-> FALSE,
               next_column_start |-> 0, num_fields |-> 0,
               column_ends |-> 0 ]
  /\ early_exit = FALSE
  /\ tuple_ends = << >>
  /\ all_bounds_positive = TRUE
  /\ column_ends = << >>
  /\ dcheck_failed = FALSE
  /\ out_of_bounds = FALSE

Init == InitOn(Buffers)

\* The state after a step of ParseSse that leaves it in state s.
Becomes(s) ==
  /\ column_idx_' = s.column_idx_
  /\ current_column_has_escape_' = s.current_column_has_escape_
  /\ last_char_is_escape_' = s.last_char_is_escape_
  /\ remaining_len' = s.remaining_len
  /\ byte_buffer_ptr' = s.byte_buffer_ptr
  /\ row_end_locations' = s.row_end_locations
  /\ field_locations' = s.field_locations
  /\ num_tuples' = s.num_tuples
  /\ num_fields' = s.num_fields
  /\ next_column_start' = s.next_column_start
  /\ tuple_ends' = s.tuple_ends
  /\ column_ends' = s.column_ends
  /\ dcheck_failed' = s.dcheck_failed

\* The caller starts ParseSse with the bound K, a tuple count of 0 and an empty
\* row_end_locations; everything else is carried over from the previous call.
Call(K) ==
  /\ pc = "idle"
  /\ calls < MaxCalls
  /\ pc' = "loop"
  /\ calls' = calls + 1
  /\ max_tuples' = K
  /\ entry' = [ byte_buffer_ptr |-> byte_buffer_ptr, remaining_len |-> remaining_len,
                column_idx_ |-> column_idx_,
                current_column_has_escape_ |-> current_column_has_escape_,
                last_char_is_escape_ |-> last_char_is_escape_,
                next_column_start |-> next_column_start, num_fields |-> num_fields,
                column_ends |-> Len(column_ends) ]
  /\ early_exit' = FALSE
  /\ \E s \in { [ State EXCEPT !.num_tuples = 0, !.row_end_locations = << >> ] } :
       Becomes(s)
  /\ all_bounds_positive' = (all_bounds_positive /\ K >= 1)
  /\ UNCHANGED << config, out_of_bounds >>

\* One iteration of the while loop: lines 94-162.
Window ==
  /\ pc = "loop"
  /\ LoopCondition(remaining_len)
  /\ \E inside \in { byte_buffer_ptr + CHARS_PER_128_BIT_REGISTER <= Len(buffer) } :
     \E b \in IF inside THEN { 0 } ELSE Garbage :
     \E s \in { State } :
     \E window \in { Load(byte_buffer_ptr, [i \in Positions |-> b]) } :
     \E r \in { ProcessWindow(s, window, max_tuples) } :
       /\ Becomes(r.state)
       /\ pc' = IF r.returned THEN "idle" ELSE "loop"
       /\ early_exit' = r.returned
       /\ out_of_bounds' = (out_of_bounds \/ ~inside)
  /\ UNCHANGED << config, max_tuples, calls, entry, all_bounds_positive >>

\* The while test fails: the return of line 163.
Return ==
  /\ pc = "loop"
  /\ ~LoopCondition(remaining_len)
  /\ pc' = "idle"
  /\ UNCHANGED << config, column_idx_, current_column_has_escape_,
                  last_char_is_escape_, max_tuples, remaining_len, byte_buffer_ptr,
                  row_end_locations, field_locations, num_tuples, num_fields,
                  next_column_start, calls, entry, early_exit, tuple_ends,
                  column_ends, all_bounds_positive, dcheck_failed, out_of_bounds >>

Next ==
  \/ \E K \in MaxTuplesChoices : Call(K)
  \/ Window
  \/ Return

Spec == Init /\ [][Next]_vars

\* ParseSse runs to its return once called: the thread is never suspended for good.
FairSpec == InitOn(FewBuffers) /\ [][Next]_vars /\ WF_vars(Window) /\ WF_vars(Return)

\* The specification on the buffers that exercise ProcessEscapeMask.
MaskSpec == InitOn(MaskBuffers) /\ [][Next]_vars

TypeOK ==
  /\ pc \in { "idle", "loop" }
  /\ num_fields = Len(field_locations)
  /\ num_tuples = Len(row_end_locations)

\* ------------------------------------------------------- facts of the stream

\* The byte at offset p of the buffer.
ByteAt(p) == buffer[p + 1]

\* The offsets of the buffer that the scan has consumed.
Consumed == { p \in 0 .. (Len(buffer) - 1) : p < byte_buffer_ptr }

\* The length of the maximal run of escape characters that ends right before p.
RECURSIVE EscapeRunBefore(_)
EscapeRunBefore(p) ==
  IF p > 0 /\ ByteAt(p - 1) = escape_char_ THEN 1 + EscapeRunBefore(p - 1) ELSE 0

\* The byte at p is not escaped by the bytes before it.
Unescaped(p) == ~process_escapes \/ EscapeRunBefore(p) % 2 = 0

Abs(x) == IF x < 0 THEN 0 - x ELSE x

\* The offset of the delimiter that ends the field f.
FieldEnd(f) == f.start + Abs(f.len)

\* The elements of the set S of numbers, in ascending order.
RECURSIVE Ascending(_)
Ascending(S) == IF S = {} THEN << >> ELSE << Min(S) >> \o Ascending(S \ { Min(S) })

\* The parser and the caller's arguments before the first call on the buffer.
Fresh ==
  [ column_idx_ |-> num_partition_keys,
    current_column_has_escape_ |-> FALSE,
    last_char_is_escape_ |-> FALSE,
    remaining_len |-> Len(buffer),
    byte_buffer_ptr |-> 0,
    row_end_locations |-> << >>,
    field_locations |-> << >>,
    num_tuples |-> 0,
    num_fields |-> 0,
    next_column_start |-> 0,
    tuple_ends |-> << >>,
    column_ends |-> << >>,
    dcheck_failed |-> FALSE ]

\* The scan of the whole buffer by one call with an unreachable tuple bound.
OneCall == With(Fresh, LAMBDA s : ParseSse(s, Unreachable))

\* ------------------------------------------------------------------ claims

\* C1: chunking equivalence.  After any sequence of calls with bounds >= 1, the
\* field locations and tuple ends recorded so far are those that one call with an
\* unreachable bound records, on the part of the stream that both scans consumed
\* (what lies behind it is left to the scalar scanner by one of the two).
C1_ChunkingEquivalence ==
  (pc = "idle" /\ calls > 0 /\ all_bounds_positive) =>
    LET one == OneCall
        limit == IF one.byte_buffer_ptr < byte_buffer_ptr
                 THEN one.byte_buffer_ptr ELSE byte_buffer_ptr
        Before(f) == FieldEnd(f) < limit
        Below(e) == e < limit
    IN /\ SelectSeq(field_locations, Before) = SelectSeq(one.field_locations, Before)
       /\ SelectSeq(tuple_ends, Below) = SelectSeq(one.tuple_ends, Below)

\* C2 as stated: for every bound K >= 0, a call that starts with a tuple count of 0
\* records at most K tuple ends.
C2_BoundedEmissionAnyBound == Len(row_end_locations) <= max_tuples

\* C2, amended: for every bound K >= 1, a call that starts with a tuple count of 0
\* records at most K tuple ends.
C2_BoundedEmission == max_tuples >= 1 => Len(row_end_locations) <= max_tuples

\* A call has returned at its bound of one tuple and left a tuple delimiter unread.
C2_Witness ==
  /\ pc = "idle" /\ early_exit /\ max_tuples = 1 /\ Len(row_end_locations) = 1
  /\ \E p \in 0 .. (Len(buffer) - 1) :
       p >= byte_buffer_ptr /\ ByteAt(p) = tuple_delim_ /\ Unescaped(p)

\* C3: on every return the pointer has advanced by what the remaining length has
\* lost, so pointer + remaining length is still the end of the input.
C3_CursorConsistency ==
  (pc = "idle" /\ calls > 0) => byte_buffer_ptr + remaining_len = Len(buffer)

\* C4: escape parity.  With escape processing active, a consumed delimiter byte
\* that follows a maximal run of k escape characters ends no column iff k is odd.
C4_EscapeParity ==
  process_escapes =>
    \A p \in Consumed :
      IsDelimiter(ByteAt(p)) =>
        ((\A i \in 1 .. Len(column_ends) : column_ends[i].delim # p)
           <=> EscapeRunBefore(p) % 2 = 1)

\* C5: escaped-field flagging.  With escape processing active, a field of the
\* stream is recorded with a negative length iff one of its bytes is the escape
\* character.
C5_EscapedFieldFlagging ==
  process_escapes =>
    \A i \in 1 .. Len(field_locations) :
      LET f == field_locations[i]
      IN FieldEnd(f) < Len(buffer) =>
           (f.len < 0 <=> \E q \in f.start .. (FieldEnd(f) - 1) : ByteAt(q) = escape_char_)

\* C6: no-escape purity.  Without escape processing every recorded field length
\* is non-negative, over any sequence of calls.
C6_NoEscapePurity ==
  ~process_escapes => \A i \in 1 .. Len(field_locations) : field_locations[i].len >= 0

\* Without escape processing, a second call has recorded a field that holds a
\* byte which would be the escape character.
C6_Witness ==
  /\ ~process_escapes /\ calls = 2
  /\ \E i \in 1 .. Len(field_locations) :
       LET f == field_locations[i]
       IN /\ f.len > 0 /\ FieldEnd(f) < Len(buffer)
          /\ \E q \in f.start .. (FieldEnd(f) - 1) : ByteAt(q) = 92

\* The columns ended after the last tuple end (all of them before the first one).
ColumnsSinceTupleEnd ==
  { i \in 1 .. Len(column_ends) :
      tuple_ends = << >> \/ column_ends[i].delim > tuple_ends[Len(tuple_ends)] }

\* C7: partition-key skip.  column_idx_ is the partition-key count right after a
\* tuple delimiter and grows by one per column from there, and the projection is
\* never asked about (and no field is recorded for) a column below that count.
C7_PartitionKeySkip ==
  /\ column_idx_ = num_partition_keys + Cardinality(ColumnsSinceTupleEnd)
  /\ early_exit => column_idx_ = num_partition_keys
  /\ \A i \in 1 .. Len(column_ends) : column_ends[i].column >= num_partition_keys

\* With one partition key, a call has returned right after a tuple delimiter that
\* ended the second column of its tuple.
C7_Witness ==
  /\ num_partition_keys = 1 /\ pc = "idle" /\ early_exit
  /\ Len(tuple_ends) >= 1 /\ Len(field_locations) >= 2
  /\ column_ends[Len(column_ends)].column = 2

\* What a call must have left alone when it returns without having read a window.
Untouched ==
  /\ byte_buffer_ptr = entry.byte_buffer_ptr
  /\ remaining_len = entry.remaining_len
  /\ column_idx_ = entry.column_idx_
  /\ current_column_has_escape_ = entry.current_column_has_escape_
  /\ last_char_is_escape_ = entry.last_char_is_escape_
  /\ next_column_start = entry.next_column_start
  /\ num_fields = entry.num_fields
  /\ num_tuples = 0
  /\ Len(column_ends) = entry.column_ends

\* What holds on every return of ParseSse.
ExitConditions ==
  (pc = "idle" /\ calls > 0) =>
    /\ num_tuples = max_tuples \/ remaining_len < CHARS_PER_128_BIT_REGISTER
    /\ ~early_exit =>
         /\ (byte_buffer_ptr - entry.byte_buffer_ptr) % CHARS_PER_128_BIT_REGISTER = 0
         /\ entry.remaining_len - remaining_len = byte_buffer_ptr - entry.byte_buffer_ptr
    /\ entry.remaining_len < CHARS_PER_128_BIT_REGISTER => Untouched

\* C8: every call returns, with the tuple count at max_tuples or fewer than 16
\* bytes remaining; a return other than the early exit has consumed whole windows,
\* and a call entered with fewer than 16 bytes changes nothing.
C8_ExitAndTermination == []ExitConditions /\ (pc = "loop" ~> pc = "idle")

\* A call consumed the two windows of the buffer and returned at the while test;
\* the next call, entered with nothing remaining, has returned too.
C8_Witness ==
  /\ pc = "idle" /\ calls = 2 /\ ~early_exit /\ max_tuples >= 1
  /\ entry.remaining_len = 0
  /\ entry.byte_buffer_ptr = 2 * CHARS_PER_128_BIT_REGISTER

\* C9: the field counter never exceeds the capacity of field_locations, which the
\* caller sized for one field per delimiter byte of the buffer, and the DCHECK_LT
\* of AddColumn never fails.
C9_OutputCapacity == num_fields <= field_capacity /\ ~dcheck_failed

\* The offsets below the cursor that hold an unescaped tuple delimiter.
TupleDelimitersConsumed ==
  { p \in Consumed : ByteAt(p) = tuple_delim_ /\ Unescaped(p) }

\* C10: the tuple ends recorded over all calls are exactly the offsets of the
\* unescaped tuple delimiters of the consumed part of the stream, once each and in
\* ascending order, and the fields are recorded in strictly ascending start order.
C10_TupleEndExactness ==
  pc = "idle" =>
    /\ tuple_ends = Ascending(TupleDelimitersConsumed)
    /\ \A i \in 1 .. (Len(field_locations) - 1) :
         field_locations[i].start < field_locations[i + 1].start

\* The AddColumn calls that wrote a field, in order: one per field location.
RecordedColumnEnds == SelectSeq(column_ends, LAMBDA e : e.recorded)

\* The offset of the last unescaped delimiter of the stream before offset d, or -1.
PreviousDelimiter(d) ==
  With({ p \in 0 .. (d - 1) : p < Len(buffer) /\ IsDelimiter(ByteAt(p)) /\ Unescaped(p) },
       LAMBDA before : IF before = {} THEN 0 - 1
                       ELSE CHOOSE p \in before : \A q \in before : q <= p)

\* C11: field geometry.  Every field recorded for a delimiter of the stream starts
\* right after the previous unescaped delimiter of the stream (at the initial
\* next_column_start, offset 0, if there is none), the magnitude of its length is
\* the distance from its start to its delimiter, and after an AddColumn
\* next_column_start is one past that column's delimiter.
C11_FieldGeometry ==
  /\ Len(RecordedColumnEnds) = Len(field_locations)
  /\ \A i \in 1 .. Len(field_locations) :
       LET f == field_locations[i]
           d == RecordedColumnEnds[i].delim
       IN d < Len(buffer) =>
            /\ Abs(f.len) = d - f.start
            /\ f.start = PreviousDelimiter(d) + 1
  /\ column_ends # << >> =>
       next_column_start = column_ends[Len(column_ends)].delim + 1

\* The index in field_locations of the field written by the AddColumn column_ends[i].
FieldOf(i) == Cardinality({ j \in 1 .. i : column_ends[j].recorded })

\* AddColumn on a column that the projection rejects: no field is written and the
\* field counter stays, while column_idx_, next_column_start and the escape flag
\* are updated as for any column.
SkippedColumnFrame(len) ==
  ~ReturnCurrentColumn(column_idx_) =>
    LET s == State
        t == AddColumn(s, len, next_column_start + len)
    IN /\ t.num_fields = s.num_fields
       /\ t.field_locations = s.field_locations
       /\ t.dcheck_failed = s.dcheck_failed
       /\ t.column_idx_ = s.column_idx_ + 1
       /\ t.next_column_start = s.next_column_start + len + 1
       /\ process_escapes => ~t.current_column_has_escape_
       /\ ~process_escapes => t.current_column_has_escape_ = s.current_column_has_escape_

\* C12: skipped column frame.  AddColumn on a rejected column writes no field and
\* leaves the field counter, increments column_idx_, advances next_column_start by
\* len + 1 and clears current_column_has_escape_; and over the calls, a skipped
\* column writes no field, and a field recorded right after a skipped column is
\* negative only if one of its own bytes is the escape character.
C12_SkippedColumnFrame ==
  /\ \A len \in 0 .. MaxSpecial : SkippedColumnFrame(len)
  /\ Len(field_locations) = FieldOf(Len(column_ends))
  /\ \A i \in 2 .. Len(column_ends) :
       (/\ process_escapes
        /\ column_ends[i].recorded /\ ~column_ends[i - 1].recorded
        /\ column_ends[i].delim < Len(buffer)
        /\ field_locations[FieldOf(i)].len < 0)
       => \E q \in (column_ends[i - 1].delim + 1) .. (column_ends[i].delim - 1) :
            ByteAt(q) = escape_char_

\* With escape processing active, a skipped column that holds an escape character
\* has been ended, and the materialized column right after it has been recorded
\* with a length >= 0.
C12_Witness ==
  /\ process_escapes
  /\ \E i \in 2 .. Len(column_ends) :
       /\ column_ends[i].recorded /\ ~column_ends[i - 1].recorded
       /\ column_ends[i].delim < Len(buffer)
       /\ field_locations[FieldOf(i)].len >= 0
       /\ \E q \in 0 .. (column_ends[i - 1].delim - 1) :
            /\ ByteAt(q) = escape_char_
            /\ \A j \in 1 .. (i - 2) : column_ends[j].delim < q

\* The next window lies inside the buffer.
WindowInside == byte_buffer_ptr + CHARS_PER_128_BIT_REGISTER <= Len(buffer)

\* The 16 bytes of the buffer at the cursor.
NextWindow == Load(byte_buffer_ptr, [i \in Positions |-> 0])

\* C13: delimiter mask.  For the window that a running call loads next, whatever
\* bytes it holds, bit i of the delimiter-match mask is set iff byte i is the field
\* delimiter, the tuple delimiter or the collection-item delimiter.
C13_DelimiterMask ==
  (pc = "loop" /\ LoopCondition(remaining_len) /\ WindowInside) =>
    DelimiterMask(NextWindow) = { i \in Positions : IsDelimiter(NextWindow[i]) }

ColumnEndsAt(p) == { i \in 1 .. Len(column_ends) : column_ends[i].delim = p }

\* The offsets recorded as tuple ends.
TupleEndSet == { tuple_ends[i] : i \in 1 .. Len(tuple_ends) }

\* C15: delimiter roles.  Every unescaped field, collection-item or tuple delimiter
\* of the consumed stream has caused exactly one AddColumn, column_idx_ has grown by
\* one per column since the last tuple boundary, and a delimiter of the stream has
\* recorded a tuple end (once, reset column_idx_ and counted a tuple) iff it is the
\* tuple delimiter.
C15_DelimiterRoles ==
  /\ \A p \in Consumed :
       (IsDelimiter(ByteAt(p)) /\ Unescaped(p)) => Cardinality(ColumnEndsAt(p)) = 1
  /\ column_idx_ = num_partition_keys + Cardinality(ColumnsSinceTupleEnd)
  /\ \A i \in 1 .. Len(column_ends) :
       column_ends[i].delim < Len(buffer) =>
         (column_ends[i].delim \in TupleEndSet
            <=> ByteAt(column_ends[i].delim) = tuple_delim_)
  /\ Cardinality(TupleEndSet) = Len(tuple_ends)
  /\ TupleEndSet \subseteq { column_ends[i].delim : i \in 1 .. Len(column_ends) }
  /\ num_tuples <= Len(tuple_ends)

\* The state with both escape flags set.
FlagsSet(s) ==
  [ s EXCEPT !.last_char_is_escape_ = TRUE, !.current_column_has_escape_ = TRUE ]

\* Without escape processing, the next iteration of a running call does the same
\* whatever the two escape flags hold, and leaves them as they are.
FlagsIgnored ==
  (pc = "loop" /\ LoopCondition(remaining_len) /\ WindowInside) =>
    LET r == ProcessWindow(State, NextWindow, max_tuples)
        flipped == ProcessWindow(FlagsSet(State), NextWindow, max_tuples)
    IN /\ flipped.returned = r.returned
       /\ flipped.state = FlagsSet(r.state)
       /\ r.state.last_char_is_escape_ = last_char_is_escape_
       /\ r.state.current_column_has_escape_ = current_column_has_escape_

\* No zero byte among the 15 bytes before offset p: whichever window holds p, the
\* byte at p lies before the window's first zero byte.
NoZeroBefore(p) ==
  \A q \in 0 .. (p - 1) : q + CHARS_PER_128_BIT_REGISTER > p => ByteAt(q) # 0

\* The consumed delimiters that follow a byte which a configuration with escape
\* processing would use as its escape character.
AfterWouldBeEscape ==
  { p \in Consumed : /\ p > 0
                     /\ IsDelimiter(ByteAt(p))
                     /\ \E c \in DelimConfigs : ByteAt(p - 1) = c.escape }

\* C16: non-escape path frame.  Without escape processing the two escape flags
\* keep the values of construction over any sequence of calls, ParseSse does the
\* same whatever they hold, and a delimiter that follows a byte equal to what would
\* be the escape character still ends a column.
C16_NonEscapeFrame ==
  ~process_escapes =>
    /\ ~last_char_is_escape_ /\ ~current_column_has_escape_
    /\ FlagsIgnored
    /\ \A p \in AfterWouldBeEscape : NoZeroBefore(p) => ColumnEndsAt(p) # {}

\* Without escape processing, a consumed delimiter that follows a single byte equal
\* to what would be the escape character has ended a column.
C16_Witness ==
  /\ ~process_escapes
  /\ \E p \in AfterWouldBeEscape :
       /\ p >= 2 /\ ByteAt(p - 2) # ByteAt(p - 1)
       /\ NoZeroBefore(p)
       /\ ColumnEndsAt(p) # {}

\* Position i of a window with the escape characters escape_mask is an active
\* escape: an escape character that is not itself escaped.  The run of escape
\* characters that ends at i alternates active, escaped, active, ..., and starts
\* with an escaped one iff it starts at position 0 and the incoming carry is set.
ActiveEscape(escape_mask, carry, i) ==
  /\ i \in escape_mask
  /\ LET start == Min({ k \in 0 .. i : (k .. i) \subseteq escape_mask })
     IN IF start = 0 /\ carry THEN (i - start) % 2 = 1 ELSE (i - start) % 2 = 0

\* What C17 says of ProcessEscapeMask on one input.
OnlyClearsBits(escape_mask, carry, delim_mask) ==
  LET r == ProcessEscapeMask(escape_mask, carry, delim_mask)
      cleared == delim_mask \ r.delim_mask
  IN /\ r.delim_mask \subseteq delim_mask
     /\ \A n \in delim_mask :
          n \in cleared <=> IF n = 0 THEN carry
                            ELSE ActiveEscape(escape_mask, carry, n - 1)
     /\ r.last_char_is_escape
          <=> ActiveEscape(escape_mask, carry, CHARS_PER_128_BIT_REGISTER - 1)

\* C17: ProcessEscapeMask only clears bits.  For the escape mask of the window a
\* running call loads next, either incoming carry and the delimiter mask of the
\* window, the full mask and the empty mask: the corrected mask is a subset of the
\* incoming one, bit n >= 1 is cleared exactly when byte n - 1 is an active escape,
\* bit 0 exactly when the incoming carry is set, and the outgoing carry is set
\* exactly when byte 15 is an active escape.
C17_OnlyClearsBits ==
  (process_escapes /\ pc = "loop" /\ LoopCondition(remaining_len) /\ WindowInside) =>
    \A carry \in BOOLEAN :
      \A delim_mask \in { Positions, DelimiterMask(NextWindow), {} } :
        OnlyClearsBits(Cmpistrm(xmm_escape_search_, NextWindow), carry, delim_mask)

\* The first window, which holds a run of at least two escape characters, has been
\* processed: ProcessEscapeMask took a delimiter out of the mask (it ended no
\* column) and set the carry from an active escape at position 15.
C17_Witness ==
  /\ process_escapes /\ calls = 1 /\ pc = "loop"
  /\ byte_buffer_ptr = CHARS_PER_128_BIT_REGISTER
  /\ last_char_is_escape_
  /\ \E p \in 1 .. (CHARS_PER_128_BIT_REGISTER - 2) :
       ByteAt(p) = escape_char_ /\ ByteAt(p - 1) = escape_char_
  /\ \E q \in Positions : IsDelimiter(ByteAt(q)) /\ ColumnEndsAt(q) = {}
  /\ \E q \in Positions : IsDelimiter(ByteAt(q)) /\ ColumnEndsAt(q) # {}

====
